---- MODULE Spec2Model ----
(***************************************************************************)
(* Repetition-code pipeline of src/src: RepetitionCode builds the circuit, *)
(* ErrorSimulator samples it, and the decoder module decodes the outcome   *)
(* matrix and computes statistics.                                         *)
(*                                                                         *)
(* Bits are 0/1.  A probability is an integer number of ProbDen-ths, so    *)
(* 0 is "never", ProbDen is "always" and anything between fires or not.    *)
(* Python sequences are TLA+ sequences (1-based); qubit indices keep the   *)
(* source's 0-based numbering.                                             *)
(***************************************************************************)
EXTENDS Integers, Sequences, FiniteSets, TLC

\* ------------------------------------------------------------- bounds
\* Largest code_distance handed to the constructor.
MaxDistance == 5
\* Largest num_shots handed to the simulator.
MaxShots == 3
\* Largest number of independent random bits in one simulation (shots times
\* probabilistic instructions), and of bits in one synthetic outcome matrix.
MaxBits == 10
\* Probabilities are multiples of 1/ProbDen.
ProbDen == 12
\* Largest number of entries of the code_distances list of compare_code_sizes.
MaxCodes == 3

VARIABLES
    code,       \* the RepetitionCode object, or NoCode
    ctor,       \* the last constructor call: its arguments and what it raised
    circuit,    \* the stim.Circuit built last: a sequence of instructions
    samples,    \* the outcome matrix: a sequence of rows of bits
    fired,      \* per shot, the indices of the circuit's error instructions that fired
    params,     \* the last circuit build or simulation: its arguments, what it
                \* raised, and whether it got as far as building its circuit
    result      \* the last call into the decoder module: arguments and outcome

vars == <<code, ctor, circuit, samples, fired, params, result>>

NoCode == [code_distance |-> 0, num_qubits |-> 0, num_ancillas |-> 0, basis |-> "none"]
NoCtor == [code_distance |-> 0, basis |-> "none", raised |-> "none", called |-> FALSE]
NoParams == [op |-> "none", basis |-> "none", noise_prob |-> 0, measurement_noise |-> 0,
             num_shots |-> 0, raised |-> "none", circuit_built |-> FALSE]
NoCall == [op |-> "none", code_distance |-> 0, expected_value |-> <<>>, row |-> 0,
           raised |-> "none", val |-> <<>>]

Bit == {0, 1}
Bases == {"z", "x", "y"}
Distances == (-1)..MaxDistance
\* noise_prob and measurement_noise as the caller passes them: one value of each
\* kind the code and the sampler tell apart (negative, 0, strictly between 0
\* and 1, 1, greater than 1).
Probs == {-1, 0, 1, ProbDen, ProbDen + 1}
\* The probabilities strictly between 0 and 1.
InteriorProbs == 1..(ProbDen - 1)
\* num_shots as the caller passes it.
ShotCounts == (-1)..MaxShots
\* expected_value as the caller passes it: left out, 0 or 1.
ExpectedArgs == {<<>>, <<0>>, <<1>>}

\* ------------------------------------------------- repetition_code.py
\* Faulty variant: the parity of code_distance is not checked.
RepetitionCode_raises_any_parity(code_distance, basis) ==
    IF code_distance < 3 THEN "ValueError"
    ELSE IF basis \notin {"z", "x"} THEN "ValueError"
    ELSE "none"

\* RepetitionCode.__init__: the exception it raises, or "none".
RepetitionCode_raises(code_distance, basis) ==
    IF code_distance < 3 \/ code_distance % 2 = 0 THEN "ValueError"
    ELSE IF basis \notin {"z", "x"} THEN "ValueError"
    ELSE "none"

\* RepetitionCode.__init__: the fields it sets.
RepetitionCode(code_distance, basis) ==
    [code_distance |-> code_distance,
     num_qubits    |-> code_distance,
     num_ancillas  |-> code_distance - 1,
     basis         |-> basis]

\* create_repetition_code: the factory returns RepetitionCode(code_distance, basis).
create_repetition_code(code_distance, basis) ==
    RepetitionCode(code_distance, basis)

\* circuit.append(name, targets, arg): one instruction; args is <<>> or <<p>>.
Instr(name, targets, args) == [name |-> name, targets |-> targets, args |-> args]

\* Faulty variant: the readout error is applied before the parity is gathered.
SyndromeBlock_error_before_cnots(self, i, measurement_noise) ==
    LET ancilla_offset == self.num_qubits
    IN  <<Instr("R", <<ancilla_offset + i>>, <<>>)>>
        \o (IF measurement_noise > 0
            THEN <<Instr("X_ERROR", <<ancilla_offset + i>>, <<measurement_noise>>)>>
            ELSE <<>>)
        \o <<Instr("CNOT", <<i, ancilla_offset + i>>, <<>>),
             Instr("CNOT", <<i + 1, ancilla_offset + i>>, <<>>),
             Instr("M", <<ancilla_offset + i>>, <<>>)>>

\* Faulty variant: both CNOTs of a block are controlled by qubit i.
SyndromeBlock_same_control(self, i, measurement_noise) ==
    LET ancilla_offset == self.num_qubits
    IN  <<Instr("R", <<ancilla_offset + i>>, <<>>),
          Instr("CNOT", <<i, ancilla_offset + i>>, <<>>),
          Instr("CNOT", <<i, ancilla_offset + i>>, <<>>)>>
        \o (IF measurement_noise > 0
            THEN <<Instr("X_ERROR", <<ancilla_offset + i>>, <<measurement_noise>>)>>
            ELSE <<>>)
        \o <<Instr("M", <<ancilla_offset + i>>, <<>>)>>

\* Faulty variant: every block uses the first ancilla.
SyndromeBlock_shared_ancilla(self, i, measurement_noise) ==
    LET ancilla_offset == self.num_qubits
    IN  <<Instr("R", <<ancilla_offset>>, <<>>),
          Instr("CNOT", <<i, ancilla_offset>>, <<>>),
          Instr("CNOT", <<i + 1, ancilla_offset>>, <<>>)>>
        \o (IF measurement_noise > 0
            THEN <<Instr("X_ERROR", <<ancilla_offset>>, <<measurement_noise>>)>>
            ELSE <<>>)
        \o <<Instr("M", <<ancilla_offset>>, <<>>)>>

\* Faulty variant: the readout error is applied to data qubit i+1, not to the
\* ancilla.
SyndromeBlock_error_on_data(self, i, measurement_noise) ==
    LET ancilla_offset == self.num_qubits
    IN  <<Instr("R", <<ancilla_offset + i>>, <<>>),
          Instr("CNOT", <<i, ancilla_offset + i>>, <<>>),
          Instr("CNOT", <<i + 1, ancilla_offset + i>>, <<>>)>>
        \o (IF measurement_noise > 0
            THEN <<Instr("X_ERROR", <<i + 1>>, <<measurement_noise>>)>>
            ELSE <<>>)
        \o <<Instr("M", <<ancilla_offset + i>>, <<>>)>>

\* One pass of the syndrome loop, for pair index i (0-based).
SyndromeBlock(self, i, measurement_noise) ==
    LET ancilla_offset == self.num_qubits
    IN  <<Instr("R", <<ancilla_offset + i>>, <<>>),
          Instr("CNOT", <<i, ancilla_offset + i>>, <<>>),
          Instr("CNOT", <<i + 1, ancilla_offset + i>>, <<>>)>>
        \o (IF measurement_noise > 0
            THEN <<Instr("X_ERROR", <<ancilla_offset + i>>, <<measurement_noise>>)>>
            ELSE <<>>)
        \o <<Instr("M", <<ancilla_offset + i>>, <<>>)>>

\* for i in range(self.num_ancillas): the blocks for i = from .. num_ancillas-1.
RECURSIVE SyndromeLoop(_, _, _)
SyndromeLoop(self, from, measurement_noise) ==
    IF from >= self.num_ancillas THEN <<>>
    ELSE SyndromeBlock(self, from, measurement_noise)
         \o SyndromeLoop(self, from + 1, measurement_noise)

\* Faulty variant: the loop stops one qubit short.
Rotation_skips_last_qubit(self) ==
    IF self.basis = "x"
    THEN [k \in 1..(self.num_qubits - 1) |-> Instr("H", <<k - 1>>, <<>>)]
    ELSE <<>>

\* for i in range(self.num_qubits): circuit.append("H", [i])
Rotation(self) ==
    IF self.basis = "x"
    THEN [k \in 1..self.num_qubits |-> Instr("H", <<k - 1>>, <<>>)]
    ELSE <<>>

\* for i in range(1, self.num_qubits): circuit.append("CNOT", [0, i])
Encoding(self) ==
    [k \in 1..(self.num_qubits - 1) |-> Instr("CNOT", <<0, k>>, <<>>)]

\* Faulty variant: the channel is emitted for a zero probability as well.
Noise_zero_probability_emitted(self, noise_prob) ==
    LET noise_op == IF self.basis = "z" THEN "X_ERROR" ELSE "Z_ERROR"
    IN  IF noise_prob >= 0
        THEN [k \in 1..self.num_qubits |-> Instr(noise_op, <<k - 1>>, <<noise_prob>>)]
        ELSE <<>>

\* The data-noise phase.
Noise(self, noise_prob) ==
    LET noise_op == IF self.basis = "z" THEN "X_ERROR" ELSE "Z_ERROR"
    IN  IF noise_prob > 0
        THEN [k \in 1..self.num_qubits |-> Instr(noise_op, <<k - 1>>, <<noise_prob>>)]
        ELSE <<>>

\* Final measurement of all data qubits.
FinalMeasurement(self) ==
    [k \in 1..self.num_qubits |-> Instr("M", <<k - 1>>, <<>>)]

\* Faulty variant: the data qubits are not rotated back before the syndrome is
\* extracted.
create_syndrome_measurement_circuit_one_rotation(self, noise_prob, measurement_noise) ==
    Encoding(self)
    \o Rotation(self)
    \o Noise(self, noise_prob)
    \o SyndromeLoop(self, 0, measurement_noise)
    \o FinalMeasurement(self)

\* Faulty variant: the data qubits are rotated once more before they are measured.
create_syndrome_measurement_circuit_rotate_back(self, noise_prob, measurement_noise) ==
    Encoding(self)
    \o Rotation(self)
    \o Noise(self, noise_prob)
    \o Rotation(self)
    \o SyndromeLoop(self, 0, measurement_noise)
    \o Rotation(self)
    \o FinalMeasurement(self)

\* Faulty variant: the noise is injected before the data qubits are rotated.
create_syndrome_measurement_circuit_noise_first(self, noise_prob, measurement_noise) ==
    Encoding(self)
    \o Noise(self, noise_prob)
    \o Rotation(self)
    \o Rotation(self)
    \o SyndromeLoop(self, 0, measurement_noise)
    \o FinalMeasurement(self)

\* Faulty variant: the data qubits are measured before the syndrome is extracted.
create_syndrome_measurement_circuit_data_first(self, noise_prob, measurement_noise) ==
    Encoding(self)
    \o Rotation(self)
    \o Noise(self, noise_prob)
    \o Rotation(self)
    \o FinalMeasurement(self)
    \o SyndromeLoop(self, 0, measurement_noise)

create_syndrome_measurement_circuit(self, noise_prob, measurement_noise) ==
    Encoding(self)
    \o Rotation(self)
    \o Noise(self, noise_prob)
    \o Rotation(self)
    \o SyndromeLoop(self, 0, measurement_noise)
    \o FinalMeasurement(self)

create_full_circuit(self, noise_prob, measurement_noise) ==
    create_syndrome_measurement_circuit(self, noise_prob, measurement_noise)

\* create_full_circuit: the object after the call.  The builder reads
\* self.num_qubits, self.num_ancillas and self.basis and assigns no attribute.
create_full_circuit_self(self, noise_prob, measurement_noise) == self

get_num_measurements(self) == self.num_ancillas + self.num_qubits

\* circuit.append(name, targets, arg) of stim: what it raises.  A noise channel
\* takes a probability; stim rejects an argument outside [0, 1].
stim_append_raises(ins) ==
    IF ins.args # <<>> /\ (ins.args[1] < 0 \/ ins.args[1] > ProbDen)
    THEN "ValueError" ELSE "none"

\* What building the instruction sequence c raises: the error of the first
\* append that fails, the circuit under construction being dropped with it.
build_raises(c) ==
    IF \E i \in 1..Len(c) : stim_append_raises(c[i]) # "none"
    THEN "ValueError" ELSE "none"

\* create_full_circuit: what it raises.  The code checks neither probability;
\* a value that is not > 0 is never handed to stim.
create_full_circuit_raises(self, noise_prob, measurement_noise) ==
    build_raises(create_full_circuit(self, noise_prob, measurement_noise))

\* UnprotectedQubit.__init__: the fields it sets (the basis is not checked).
UnprotectedQubit(basis) == [num_qubits |-> 1, basis |-> basis]

\* Faulty variant: the qubit is not rotated back before it is measured.
create_circuit_no_inverse_rotation(self, noise_prob) ==
    LET noise_op == IF self.basis = "z" THEN "X_ERROR" ELSE "Z_ERROR"
    IN  (IF self.basis = "x" THEN <<Instr("H", <<0>>, <<>>)>> ELSE <<>>)
        \o (IF noise_prob > 0 THEN <<Instr(noise_op, <<0>>, <<noise_prob>>)>> ELSE <<>>)
        \o <<Instr("M", <<0>>, <<>>)>>

\* UnprotectedQubit.create_circuit
create_circuit(self, noise_prob) ==
    LET noise_op == IF self.basis = "z" THEN "X_ERROR" ELSE "Z_ERROR"
    IN  (IF self.basis = "x" THEN <<Instr("H", <<0>>, <<>>)>> ELSE <<>>)
        \o (IF noise_prob > 0 THEN <<Instr(noise_op, <<0>>, <<noise_prob>>)>> ELSE <<>>)
        \o (IF self.basis = "x" THEN <<Instr("H", <<0>>, <<>>)>> ELSE <<>>)
        \o <<Instr("M", <<0>>, <<>>)>>

\* UnprotectedQubit.create_circuit: what it raises.
create_circuit_raises(self, noise_prob) ==
    build_raises(create_circuit(self, noise_prob))

\* -------------------------------------------------- error_simulation.py
\* The sampler's view of one qubit: an eigenstate of Z ("Z", v: |0> or |1>) or
\* of X ("X", v: |+> or |->), or "E": entangled with others, value unknown.
Qubit(b, v) == [b |-> b, v |-> v]

\* The number of qubits a circuit uses: its largest target, plus one.
NumQubits(c) ==
    LET ts == UNION {{c[i].targets[j] : j \in 1..Len(c[i].targets)} : i \in 1..Len(c)}
    IN  IF ts = {} THEN 0 ELSE (CHOOSE m \in ts : \A t \in ts : t <= m) + 1

IsError(ins) == ins.name \in {"X_ERROR", "Z_ERROR"}

\* Whether error instruction number idx fires in the shot that drew `choice`.
Fires(ins, idx, choice) ==
    /\ IsError(ins)
    /\ \/ ins.args[1] >= ProbDen
       \/ ins.args[1] > 0 /\ idx \in choice

\* A Pauli X (which = "X") or Z (which = "Z") on one qubit.
Pauli(q, which) ==
    IF q.b = "E" THEN q
    ELSE IF (which = "X" /\ q.b = "Z") \/ (which = "Z" /\ q.b = "X")
         THEN Qubit(q.b, 1 - q.v)
         ELSE q

\* CNOT on control c and target t: the pair of states after it.
Cnot(c, t) ==
    CASE c.b = "Z" /\ t.b = "Z" -> <<c, Qubit("Z", (c.v + t.v) % 2)>>
      [] c.b = "Z" /\ t.b # "Z" -> <<c, t>>
      [] c.b = "X" /\ t.b = "X" -> <<Qubit("X", (c.v + t.v) % 2), t>>
      [] c.b = "E" /\ t.b = "X" -> <<c, t>>
      [] OTHER                  -> <<Qubit("E", 0), Qubit("E", 0)>>

\* One instruction of the circuit on the shot's state st = [pc, q, out, rnd]:
\* pc the next instruction, q the qubits, out the measurement record, rnd the
\* measurements whose outcome was random.
ApplyInstr(st, ins, idx, choice) ==
    LET a == ins.targets[1]
        q == st.q
    IN  CASE ins.name = "H" ->
                [st EXCEPT !.q[a] = IF q[a].b = "E" THEN q[a]
                                    ELSE Qubit(IF q[a].b = "Z" THEN "X" ELSE "Z", q[a].v)]
          [] ins.name = "X" ->
                [st EXCEPT !.q[a] = Pauli(q[a], "X")]
          [] ins.name = "X_ERROR" ->
                IF Fires(ins, idx, choice) THEN [st EXCEPT !.q[a] = Pauli(q[a], "X")] ELSE st
          [] ins.name = "Z_ERROR" ->
                IF Fires(ins, idx, choice) THEN [st EXCEPT !.q[a] = Pauli(q[a], "Z")] ELSE st
          [] ins.name = "CNOT" ->
                LET b == ins.targets[2]
                    r == Cnot(q[a], q[b])
                IN  [st EXCEPT !.q[a] = r[1], !.q[b] = r[2]]
          [] ins.name = "R" ->
                [st EXCEPT !.q[a] = Qubit("Z", 0)]
          [] ins.name = "M" ->
                IF q[a].b = "Z"
                THEN [st EXCEPT !.out = Append(st.out, q[a].v)]
                ELSE LET r == IF idx \in choice THEN 1 ELSE 0
                     IN  [st EXCEPT !.q[a] = Qubit("Z", r),
                                    !.out = Append(st.out, r),
                                    !.rnd = st.rnd \cup {idx}]

\* The sampler executes instruction st.pc and moves to the next.
Step(c, st, choice) ==
    [ApplyInstr(st, c[st.pc], st.pc, choice) EXCEPT !.pc = st.pc + 1]

RECURSIVE RunFrom(_, _, _)
RunFrom(c, st, choice) ==
    IF st.pc > Len(c) THEN st ELSE RunFrom(c, Step(c, st, choice), choice)

\* One shot of the sampler: every qubit starts in |0>.
Shot(c, choice) ==
    RunFrom(c,
            [pc  |-> 1,
             q   |-> [i \in 0..(NumQubits(c) - 1) |-> Qubit("Z", 0)],
             out |-> <<>>,
             rnd |-> {}],
            choice)

\* The instructions whose effect is drawn at random in each shot: the error
\* channels with a probability strictly between 0 and 1 and the measurements of
\* a qubit that is not in a Z eigenstate.
RandomPoints(c) ==
    {i \in 1..Len(c) : IsError(c[i]) /\ c[i].args[1] > 0 /\ c[i].args[1] < ProbDen}
    \cup Shot(c, {}).rnd

\* The error instructions that fired in the shot that drew `choice`.
FiredIn(c, choice) == {i \in 1..Len(c) : Fires(c[i], i, choice)}

\* ErrorSimulator(num_shots).simulate_circuit(circuit), given each shot's draw.
simulate_circuit(c, choices) == [k \in 1..Len(choices) |-> Shot(c, choices[k]).out]

\* sampler.sample(shots=self.num_shots): what it raises.  The count is an
\* unsigned argument of stim: a negative one is rejected, 0 is a count like any
\* other and gives a matrix of no rows.  ErrorSimulator.__init__ checks nothing.
simulate_circuit_raises(num_shots) == IF num_shots < 0 THEN "TypeError" ELSE "none"

\* a to the power n.
RECURSIVE Pow(_, _)
Pow(a, n) == IF n = 0 THEN 1 ELSE a * Pow(a, n - 1)

\* The probability, in units of 1/ProbDen^|rp|, that one shot of c makes
\* exactly the draws `choice` at the random error channels rp: each fires with
\* its own probability, independently of the others.
RECURSIVE ChoiceWeight(_, _, _)
ChoiceWeight(c, rp, choice) ==
    IF rp = {} THEN 1
    ELSE LET i == CHOOSE x \in rp : TRUE
         IN  (IF i \in choice THEN c[i].args[1] ELSE ProbDen - c[i].args[1])
             * ChoiceWeight(c, rp \ {i}, choice)

\* The sum of the weights of the draws in chs, gathered weight by weight.
RECURSIVE WeightedCount(_, _, _, _)
WeightedCount(c, rp, chs, ws) ==
    IF ws = {} THEN 0
    ELSE LET w == CHOOSE x \in ws : TRUE
         IN  w * Cardinality({ch \in chs : ChoiceWeight(c, rp, ch) = w})
             + WeightedCount(c, rp, chs, ws \ {w})

\* ----------------------------------------------------------- decoder.py
\* sample[:n] and sample[n:] of Python, n counted from the end when negative.
SliceStart(seq, n) == IF n < 0 THEN (IF Len(seq) + n < 0 THEN 0 ELSE Len(seq) + n)
                      ELSE IF n > Len(seq) THEN Len(seq) ELSE n
SliceTo(seq, n) == SubSeq(seq, 1, SliceStart(seq, n))
SliceFrom(seq, n) == SubSeq(seq, SliceStart(seq, n) + 1, Len(seq))

\* np.sum of a bit vector.
RECURSIVE np_sum(_)
np_sum(v) == IF v = <<>> THEN 0 ELSE Head(v) + np_sum(Tail(v))

\* Faulty variant: the first data bit is returned without a vote.
decode_first_bit(syndrome, data_measurements) ==
    IF data_measurements = <<>> THEN 0 ELSE data_measurements[1]

\* Faulty variant: a tie decodes to 1.
decode_tie_to_one(syndrome, data_measurements) ==
    LET ones_count  == np_sum(data_measurements)
        zeros_count == Len(data_measurements) - ones_count
    IN  IF ones_count >= zeros_count THEN 1 ELSE 0

\* Faulty variant: the vote runs over the syndrome bits as well.
decode_whole_row(syndrome, data_measurements) ==
    LET ones_count  == np_sum(syndrome) + np_sum(data_measurements)
        zeros_count == Len(syndrome) + Len(data_measurements) - ones_count
    IN  IF ones_count > zeros_count THEN 1 ELSE 0

\* MajorityVoteDecoder.decode
decode(syndrome, data_measurements) ==
    LET ones_count  == np_sum(data_measurements)
        zeros_count == Len(data_measurements) - ones_count
    IN  IF ones_count > zeros_count THEN 1 ELSE 0

\* Faulty variant: the vote takes the syndrome bits in.
decode_with_syndrome_votes_on_syndrome(syndrome, data_measurements) ==
    [val               |-> decode_whole_row(syndrome, data_measurements),
     data_measurements |-> data_measurements]

\* MajorityVoteDecoder.decode_with_syndrome: the value it returns and its
\* argument data_measurements as the call leaves it (the method works on a
\* copy, corrected_data, which it never changes or reads again).
decode_with_syndrome(syndrome, data_measurements) ==
    LET corrected_data == data_measurements
    IN  [val               |-> decode(syndrome, data_measurements),
         data_measurements |-> data_measurements]

\* MajorityVoteDecoder.decode: what it raises.  Nothing: np.sum and len accept
\* a vector of any length, the empty one included.
decode_raises(syndrome, data_measurements) == "none"

\* The body of decode_samples' loop for one sample.
decode_sample(sample, code_distance) ==
    LET num_syndrome == code_distance - 1
        syndrome     == SliceTo(sample, num_syndrome)
        data         == SliceFrom(sample, num_syndrome)
    IN  decode(syndrome, data)

\* Faulty variant: each decoded value is put in front of the earlier ones.
RECURSIVE decode_loop_prepend(_, _, _)
decode_loop_prepend(smpls, code_distance, decoded_values) ==
    IF smpls = <<>> THEN decoded_values
    ELSE decode_loop_prepend(Tail(smpls), code_distance,
                             <<decode_sample(Head(smpls), code_distance)>>
                             \o decoded_values)

\* decode_samples: for sample in samples: decoded_values.append(...)
RECURSIVE decode_loop(_, _, _)
decode_loop(smpls, code_distance, decoded_values) ==
    IF smpls = <<>> THEN decoded_values
    ELSE decode_loop(Tail(smpls), code_distance,
                     Append(decoded_values, decode_sample(Head(smpls), code_distance)))

decode_samples(smpls, code_distance) == decode_loop(smpls, code_distance, <<>>)

\* Faulty variant: counts the decoded values equal to expected_value.
RECURSIVE count_equal(_, _)
count_equal(decoded_values, expected_value) ==
    IF decoded_values = <<>> THEN 0
    ELSE (IF Head(decoded_values) = expected_value THEN 1 ELSE 0)
         + count_equal(Tail(decoded_values), expected_value)

\* np.sum(decoded_values != expected_value)
RECURSIVE count_differs(_, _)
count_differs(decoded_values, expected_value) ==
    IF decoded_values = <<>> THEN 0
    ELSE (IF Head(decoded_values) # expected_value THEN 1 ELSE 0)
         + count_differs(Tail(decoded_values), expected_value)

\* A float as the exact fraction num/den, or not-a-number / infinity.
Float(num, den) == [kind |-> "float", num |-> num, den |-> den]
NaN == [kind |-> "nan", num |-> 0, den |-> 0]
Inf == [kind |-> "inf", num |-> 0, den |-> 0]

\* errors / len(decoded_values), errors a numpy integer: a zero divisor gives
\* nan or inf (with a RuntimeWarning), not an exception.
np_true_divide(errors, n) ==
    IF n # 0 THEN Float(errors, n)
    ELSE IF errors = 0 THEN NaN ELSE Inf

\* def calculate_logical_error_rate(samples, code_distance, expected_value=0)
expected_value_default == 0

\* calculate_logical_error_rate: what it raises.  Nothing: the loop, np.sum and
\* the numpy division raise on no bit matrix, the empty one included.
calculate_logical_error_rate_raises(smpls, code_distance, expected_value) == "none"

\* calculate_logical_error_rate (decoder.py)
calculate_logical_error_rate(smpls, code_distance, expected_value) ==
    LET decoded_values == decode_samples(smpls, code_distance)
        errors         == count_differs(decoded_values, expected_value)
    IN  np_true_divide(errors, Len(decoded_values))

\* syndrome_counts[syndrome] = syndrome_counts.get(syndrome, 0) + 1 on a dict
\* kept as its items in insertion order.
dict_increment(syndrome_counts, syndrome) ==
    IF \E j \in 1..Len(syndrome_counts) : syndrome_counts[j][1] = syndrome
    THEN [j \in 1..Len(syndrome_counts) |->
            IF syndrome_counts[j][1] = syndrome
            THEN <<syndrome, syndrome_counts[j][2] + 1>>
            ELSE syndrome_counts[j]]
    ELSE Append(syndrome_counts, <<syndrome, 1>>)

RECURSIVE count_loop(_, _, _)
count_loop(smpls, num_syndrome, syndrome_counts) ==
    IF smpls = <<>> THEN syndrome_counts
    ELSE count_loop(Tail(smpls), num_syndrome,
                    dict_increment(syndrome_counts, SliceTo(Head(smpls), num_syndrome)))

\* Faulty variant: the last item whose count no item exceeds.
py_max_by_count_last(items) ==
    LET best == CHOOSE j \in 1..Len(items) :
                    /\ \A k \in 1..Len(items) : items[k][2] <= items[j][2]
                    /\ \A k \in (j + 1)..Len(items) : items[k][2] < items[j][2]
    IN  items[best]

\* max(items, key=lambda x: x[1]): the first item whose count no item exceeds.
py_max_by_count(items) ==
    LET best == CHOOSE j \in 1..Len(items) :
                    /\ \A k \in 1..Len(items) : items[k][2] <= items[j][2]
                    /\ \A k \in 1..(j - 1) : items[k][2] < items[j][2]
    IN  items[best]

\* analyze_syndrome_patterns: what it raises (max of an empty dict), or "none".
analyze_syndrome_patterns_raises(smpls, code_distance) ==
    IF count_loop(smpls, code_distance - 1, <<>>) = <<>> THEN "ValueError" ELSE "none"

\* analyze_syndrome_patterns: the dict it returns.
analyze_syndrome_patterns(smpls, code_distance) ==
    LET num_syndrome    == code_distance - 1
        syndrome_counts == count_loop(smpls, num_syndrome, <<>>)
    IN  [patterns            |-> syndrome_counts,
         num_unique_patterns |-> Len(syndrome_counts),
         most_common         |-> py_max_by_count(syndrome_counts),
         total_samples       |-> Len(smpls)]

\* ------------------------------------- error_simulation.py, continued
\* Faulty variant: a shot counts as an error when it decodes to 0.
RECURSIVE num_errors_loop_counts_zeros(_, _, _)
num_errors_loop_counts_zeros(smpls, num_syndrome_measurements, num_errors) ==
    IF smpls = <<>> THEN num_errors
    ELSE LET sample          == Head(smpls)
             syndrome        == SliceTo(sample, num_syndrome_measurements)
             data            == SliceFrom(sample, num_syndrome_measurements)
             corrected_value == decode(syndrome, data)
         IN  num_errors_loop_counts_zeros(Tail(smpls), num_syndrome_measurements,
                                          IF corrected_value = 0 THEN num_errors + 1
                                          ELSE num_errors)

\* ErrorSimulator.calculate_logical_error_rate: for sample in samples, with
\* decoder_func the decode method of a MajorityVoteDecoder.
RECURSIVE num_errors_loop(_, _, _)
num_errors_loop(smpls, num_syndrome_measurements, num_errors) ==
    IF smpls = <<>> THEN num_errors
    ELSE LET sample          == Head(smpls)
             syndrome        == SliceTo(sample, num_syndrome_measurements)
             data            == SliceFrom(sample, num_syndrome_measurements)
             corrected_value == decode(syndrome, data)
         IN  num_errors_loop(Tail(smpls), num_syndrome_measurements,
                             IF corrected_value # 0 THEN num_errors + 1
                             ELSE num_errors)

\* ErrorSimulator.calculate_logical_error_rate: what it raises.  num_errors is
\* a Python int, so a matrix of no rows divides by zero.
simulator_logical_error_rate_raises(smpls, num_syndrome_measurements) ==
    IF Len(smpls) = 0 THEN "ZeroDivisionError" ELSE "none"

\* ErrorSimulator.calculate_logical_error_rate: num_errors / len(samples).
simulator_logical_error_rate(smpls, num_syndrome_measurements) ==
    Float(num_errors_loop(smpls, num_syndrome_measurements, 0), Len(smpls))

\* results[distance] = samples on a dict kept as its items in insertion order.
dict_set(results, key, value) ==
    IF \E j \in 1..Len(results) : results[j][1] = key
    THEN [j \in 1..Len(results) |->
            IF results[j][1] = key THEN <<key, value>> ELSE results[j]]
    ELSE Append(results, <<key, value>>)

\* The expectation, over the sampler's draws, of the logical error rate of the
\* outcome matrix run_error_correction_simulation returns for `code`: the
\* probability that a shot decodes to something else than expected_value.
\* (Shots are independent and identically distributed, so the expectation of
\* the rate of any number of shots is that of one shot.)
expected_logical_error_rate(self, noise_prob, measurement_noise) ==
    LET c     == create_full_circuit(self, noise_prob, measurement_noise)
        rp    == RandomPoints(c)
        wrong == {ch \in SUBSET rp :
                    calculate_logical_error_rate(simulate_circuit(c, <<ch>>),
                                                 self.code_distance,
                                                 expected_value_default).num = 1}
    IN  Float(WeightedCount(c, rp, wrong, {ChoiceWeight(c, rp, ch) : ch \in wrong}),
              Pow(ProbDen, Cardinality(rp)))

\* compare_code_sizes: for distance in code_distances, with each distance's
\* outcome matrix summarised by its expected logical error rate.
RECURSIVE compare_loop(_, _, _, _)
compare_loop(code_distances, noise_prob, measurement_noise, results) ==
    IF code_distances = <<>> THEN results
    ELSE LET distance == Head(code_distances)
             self     == RepetitionCode(distance, "z")
         IN  compare_loop(Tail(code_distances), noise_prob, measurement_noise,
                          dict_set(results, distance,
                                   expected_logical_error_rate(self, noise_prob,
                                                               measurement_noise)))

compare_code_sizes(code_distances, noise_prob, measurement_noise) ==
    compare_loop(code_distances, noise_prob, measurement_noise, <<>>)

\* ------------------------------------------------------------ actions
Params(op, basis, noise_prob, measurement_noise, num_shots, raised, circuit_built) ==
    [op |-> op, basis |-> basis, noise_prob |-> noise_prob,
     measurement_noise |-> measurement_noise, num_shots |-> num_shots,
     raised |-> raised, circuit_built |-> circuit_built]

Call(op, code_distance, expected_value, row, raised, val) ==
    [op |-> op, code_distance |-> code_distance, expected_value |-> expected_value,
     row |-> row, raised |-> raised, val |-> val]

\* code = RepetitionCode(code_distance, basis), starting a new experiment.
Construct(code_distance, basis) ==
    LET raised == RepetitionCode_raises(code_distance, basis)
    IN  /\ ~ctor.called
        /\ ctor' = [code_distance |-> code_distance, basis |-> basis,
                    raised |-> raised, called |-> TRUE]
        /\ code' = IF raised = "none"
                   THEN create_repetition_code(code_distance, basis)
                   ELSE NoCode
        /\ circuit' = <<>>
        /\ samples' = <<>>
        /\ fired' = <<>>
        /\ params' = NoParams
        /\ result' = NoCall

\* circuit = code.create_full_circuit(noise_prob, measurement_noise)
CreateFullCircuit(noise_prob, measurement_noise) ==
    LET raised == create_full_circuit_raises(code, noise_prob, measurement_noise)
    IN  /\ code # NoCode
        /\ circuit = <<>>
        /\ params.op = "none"
        /\ circuit' = IF raised = "none"
                      THEN create_full_circuit(code, noise_prob, measurement_noise)
                      ELSE <<>>
        /\ params' = Params("create_full_circuit", code.basis, noise_prob,
                            measurement_noise, 0, raised, raised = "none")
        /\ samples' = <<>>
        /\ fired' = <<>>
        /\ result' = NoCall
        /\ code' = create_full_circuit_self(code, noise_prob, measurement_noise)
        /\ UNCHANGED ctor

\* circuit2 = code.create_full_circuit(noise_prob, measurement_noise): a second
\* call with the arguments of the first, its return value kept next to the
\* first circuit.
CreateFullCircuitAgain ==
    /\ params.op = "create_full_circuit"
    /\ params.raised = "none"
    /\ result = NoCall
    /\ result' = Call("create_full_circuit", code.code_distance, <<>>, 0,
                      create_full_circuit_raises(code, params.noise_prob,
                                                 params.measurement_noise),
                      create_full_circuit(code, params.noise_prob,
                                          params.measurement_noise))
    /\ code' = create_full_circuit_self(code, params.noise_prob,
                                        params.measurement_noise)
    /\ UNCHANGED <<ctor, circuit, samples, fired, params>>

\* samples, circuit = run_error_correction_simulation(code, noise_prob,
\*                                                    measurement_noise, num_shots)
\* The circuit is built first (line 97); the shot count reaches the sampler
\* unchecked (lines 98-99).  When either step raises nothing is returned.
RunErrorCorrectionSimulation(noise_prob, measurement_noise, num_shots) ==
    LET build_raised  == create_full_circuit_raises(code, noise_prob, measurement_noise)
        sample_raised == simulate_circuit_raises(num_shots)
        raised        == IF build_raised # "none" THEN build_raised ELSE sample_raised
    IN  /\ code # NoCode
        /\ circuit = <<>>
        /\ params.op = "none"
        /\ IF raised # "none"
           THEN /\ circuit' = <<>>
                /\ samples' = <<>>
                /\ fired' = <<>>
           ELSE LET c  == create_full_circuit(code, noise_prob, measurement_noise)
                    rp == RandomPoints(c)
                IN  /\ num_shots * Cardinality(rp) <= MaxBits
                    /\ \E choices \in [1..num_shots -> SUBSET rp] :
                         /\ circuit' = c
                         /\ samples' = simulate_circuit(c, choices)
                         /\ fired' = [k \in 1..num_shots |-> FiredIn(c, choices[k])]
        /\ params' = Params("run_error_correction_simulation", code.basis, noise_prob,
                            measurement_noise, num_shots, raised, build_raised = "none")
        /\ result' = NoCall
        /\ code' = create_full_circuit_self(code, noise_prob, measurement_noise)
        /\ UNCHANGED ctor

\* circuit = UnprotectedQubit(basis).create_circuit(noise_prob)
CreateCircuit(basis, noise_prob) ==
    LET self   == UnprotectedQubit(basis)
        raised == create_circuit_raises(self, noise_prob)
    IN  /\ params.op = "none"
        /\ circuit' = IF raised = "none" THEN create_circuit(self, noise_prob) ELSE <<>>
        /\ params' = Params("create_circuit", basis, noise_prob, 0, 0, raised,
                            raised = "none")
        /\ samples' = <<>>
        /\ fired' = <<>>
        /\ result' = NoCall
        /\ UNCHANGED <<code, ctor>>

\* samples, circuit = run_unprotected_simulation(noise_prob, num_shots, basis)
RunUnprotectedSimulation(noise_prob, num_shots, basis) ==
    LET unprotected   == UnprotectedQubit(basis)
        build_raised  == create_circuit_raises(unprotected, noise_prob)
        sample_raised == simulate_circuit_raises(num_shots)
        raised        == IF build_raised # "none" THEN build_raised ELSE sample_raised
    IN  /\ params.op = "none"
        /\ IF raised # "none"
           THEN /\ circuit' = <<>>
                /\ samples' = <<>>
                /\ fired' = <<>>
           ELSE LET c  == create_circuit(unprotected, noise_prob)
                    rp == RandomPoints(c)
                IN  /\ num_shots * Cardinality(rp) <= MaxBits
                    /\ \E choices \in [1..num_shots -> SUBSET rp] :
                         /\ circuit' = c
                         /\ samples' = simulate_circuit(c, choices)
                         /\ fired' = [k \in 1..num_shots |-> FiredIn(c, choices[k])]
        /\ params' = Params("run_unprotected_simulation", basis, noise_prob, 0,
                            num_shots, raised, build_raised = "none")
        /\ result' = NoCall
        /\ UNCHANGED <<code, ctor>>

\* results = compare_code_sizes(code_distances, noise_prob, measurement_noise)
CompareCodeSizes(code_distances, noise_prob, measurement_noise) ==
    /\ params.op = "none"
    /\ params' = Params("compare_code_sizes", "z", noise_prob, measurement_noise,
                        0, "none", TRUE)
    /\ result' = Call("compare_code_sizes", 0, <<>>, 0, "none",
                      compare_code_sizes(code_distances, noise_prob, measurement_noise))
    /\ UNCHANGED <<code, ctor, circuit, samples, fired>>

\* MajorityVoteDecoder(code_distance).decode(sample[:n], sample[n:]) on row k.
CallDecode(k, code_distance) ==
    /\ k \in 1..Len(samples)
    /\ LET syndrome == SliceTo(samples[k], code_distance - 1)
           data     == SliceFrom(samples[k], code_distance - 1)
       IN  result' = Call("decode", code_distance, <<>>, k,
                          decode_raises(syndrome, data), decode(syndrome, data))
    /\ UNCHANGED <<code, ctor, circuit, samples, fired, params>>

\* decode_samples(samples, code_distance)
CallDecodeSamples(code_distance) ==
    /\ result' = Call("decode_samples", code_distance, <<>>, 0, "none",
                      decode_samples(samples, code_distance))
    /\ UNCHANGED <<code, ctor, circuit, samples, fired, params>>

\* calculate_logical_error_rate(samples, code_distance[, expected_value]):
\* given is <<>> when the caller leaves expected_value to its default.
CallCalculateLogicalErrorRate(code_distance, given) ==
    /\ LET expected_value == IF given = <<>> THEN expected_value_default ELSE given[1]
       IN  result' = Call("calculate_logical_error_rate", code_distance, given, 0,
                          calculate_logical_error_rate_raises(samples, code_distance,
                                                              expected_value),
                          calculate_logical_error_rate(samples, code_distance,
                                                       expected_value))
    /\ UNCHANGED <<code, ctor, circuit, samples, fired, params>>

\* MajorityVoteDecoder(code_distance).decode_with_syndrome(sample[:n], sample[n:])
\* on row k.
CallDecodeWithSyndrome(k, code_distance) ==
    /\ k \in 1..Len(samples)
    /\ LET syndrome == SliceTo(samples[k], code_distance - 1)
           data     == SliceFrom(samples[k], code_distance - 1)
       IN  result' = Call("decode_with_syndrome", code_distance, <<>>, k, "none",
                          decode_with_syndrome(syndrome, data))
    /\ UNCHANGED <<code, ctor, circuit, samples, fired, params>>

\* ErrorSimulator().calculate_logical_error_rate(samples, code_distance - 1,
\*                                               MajorityVoteDecoder(code_distance).decode)
CallSimulatorLogicalErrorRate(code_distance) ==
    /\ LET raised == simulator_logical_error_rate_raises(samples, code_distance - 1)
       IN  result' = Call("ErrorSimulator.calculate_logical_error_rate", code_distance,
                          <<>>, 0, raised,
                          IF raised = "none"
                          THEN simulator_logical_error_rate(samples, code_distance - 1)
                          ELSE <<>>)
    /\ UNCHANGED <<code, ctor, circuit, samples, fired, params>>

\* analyze_syndrome_patterns(samples, code_distance)
CallAnalyzeSyndromePatterns(code_distance) ==
    /\ LET raised == analyze_syndrome_patterns_raises(samples, code_distance)
       IN  result' = Call("analyze_syndrome_patterns", code_distance, <<>>, 0, raised,
                          IF raised = "none"
                          THEN analyze_syndrome_patterns(samples, code_distance)
                          ELSE <<>>)
    /\ UNCHANGED <<code, ctor, circuit, samples, fired, params>>

\* ------------------------------------------- the pipeline: Spec
\* One experiment: a code is constructed once, a circuit is built and sampled
\* once, and one call into the decoder module is recorded.  Each of these
\* overwrites what the previous one of its kind left, so a longer run reaches no
\* state that these runs do not.
Init ==
    /\ code = NoCode
    /\ ctor = NoCtor
    /\ circuit = <<>>
    /\ samples = <<>>
    /\ fired = <<>>
    /\ params = NoParams
    /\ result = NoCall

\* The decoder module on the simulated outcome matrix, as the examples call it.
Analyse ==
    /\ samples # <<>>
    /\ result = NoCall
    /\ \/ \E k \in 1..Len(samples) : CallDecode(k, code.code_distance)
       \/ CallDecodeSamples(code.code_distance)
       \/ \E e \in ExpectedArgs : CallCalculateLogicalErrorRate(code.code_distance, e)
       \/ CallAnalyzeSyndromePatterns(code.code_distance)

Next ==
    \/ \E d \in Distances, b \in Bases : Construct(d, b)
    \/ \E p \in Probs, m \in Probs : CreateFullCircuit(p, m)
    \/ CreateFullCircuitAgain
    \/ \E p \in Probs, m \in Probs, n \in ShotCounts :
            RunErrorCorrectionSimulation(p, m, n)
    \/ Analyse

Spec == Init /\ [][Next]_vars

\* ---------------- the decoder module on any outcome matrix: SpecFn
\* Every bit matrix of at most MaxBits bits, the empty one included.
Matrices ==
    {<<>>} \cup UNION {[1..n -> [1..w -> Bit]] :
                          <<n, w>> \in {x \in (1..MaxBits) \X (1..MaxBits) :
                                           x[1] * x[2] <= MaxBits}}

InitFn ==
    /\ code = NoCode
    /\ ctor = NoCtor
    /\ circuit = <<>>
    /\ samples \in Matrices
    /\ fired = <<>>
    /\ params = NoParams
    /\ result = NoCall

NextFn ==
    /\ result = NoCall
    /\ \E d \in 1..MaxDistance :
        \/ \E k \in 1..Len(samples) : CallDecode(k, d)
        \/ CallDecodeSamples(d)
        \/ \E e \in ExpectedArgs : CallCalculateLogicalErrorRate(d, e)
        \/ CallAnalyzeSyndromePatterns(d)
        \/ \E k \in 1..Len(samples) : CallDecodeWithSyndrome(k, d)
        \/ CallSimulatorLogicalErrorRate(d)

SpecFn == InitFn /\ [][NextFn]_vars

\* ------------------- the unprotected-qubit baseline: SpecUnprotected
NextUnprotected ==
    \/ \E b \in Bases, p \in Probs : CreateCircuit(b, p)
    \/ \E p \in Probs, n \in ShotCounts, b \in Bases : RunUnprotectedSimulation(p, n, b)

SpecUnprotected == Init /\ [][NextUnprotected]_vars

\* ------------------------- the comparison of code sizes: SpecCompare
\* The distances RepetitionCode accepts, up to the largest the spec compares.
MaxCompareDistance == 7
CompareDistances ==
    {d \in 1..MaxCompareDistance : RepetitionCode_raises(d, "z") = "none"}

\* The lists of at most MaxCodes such distances, each distance listed once.
DistanceLists ==
    {ds \in UNION {[1..n -> CompareDistances] : n \in 0..MaxCodes} :
        \A i, j \in 1..Len(ds) : ds[i] = ds[j] => i = j}

NextCompare ==
    \E ds \in DistanceLists, p \in InteriorProbs : CompareCodeSizes(ds, p, 0)

SpecCompare == Init /\ [][NextCompare]_vars

\* ===================================================== properties
\* The qubits measured by a circuit, in emission order.
MeasuredQubits(c) ==
    LET ms == SelectSeq(c, LAMBDA ins : ins.name = "M")
    IN  [k \in 1..Len(ms) |-> ms[k].targets[1]]

IsOdd(n) == \E k \in 0..n : n = 2 * k + 1

\* C1: the measure instructions of every built circuit target, in emission
\* order, the ancillas d .. 2d-2 and then the physical qubits 0 .. d-1, so there
\* are get_num_measurements() = 2d-1 of them.
Thm_C1_MeasurementOrder ==
    circuit # <<>> =>
        LET d == code.code_distance
            m == MeasuredQubits(circuit)
        IN  /\ Len(m) = 2 * d - 1
            /\ Len(m) = get_num_measurements(code)
            /\ \A k \in 1..Len(m) :
                  m[k] = IF k <= d - 1 THEN d + (k - 1) ELSE k - d

Wit_C1_MeasurementOrder ==
    /\ circuit # <<>>
    /\ code.code_distance = 5
    /\ code.basis = "x"
    /\ params.noise_prob > 0
    /\ params.measurement_noise > 0
    /\ MeasuredQubits(circuit) = <<5, 6, 7, 8, 0, 1, 2, 3, 4>>

\* C6: the constructor raises ValueError exactly when code_distance < 3, or
\* code_distance is even, or basis is neither 'z' nor 'x'; when it raises there
\* is no code and no circuit; when it returns, num_qubits = code_distance and
\* num_ancillas = code_distance - 1, so every code is of odd distance >= 3.
Thm_C6_Construction ==
    /\ ctor.called =>
          LET d   == ctor.code_distance
              bad == d < 3 \/ ~IsOdd(d) \/ ctor.basis \notin {"z", "x"}
          IN  /\ ctor.raised = "ValueError" <=> bad
              /\ ctor.raised = "none" <=> ~bad
              /\ bad => code = NoCode /\ circuit = <<>> /\ samples = <<>>
              /\ ~bad => /\ code.code_distance = d
                         /\ code.num_qubits = d
                         /\ code.num_ancillas = d - 1
                         /\ code.basis = ctor.basis
    /\ code # NoCode => code.code_distance >= 3 /\ IsOdd(code.code_distance)
                        /\ code.basis \in {"z", "x"}
    /\ ~ctor.called => code = NoCode /\ circuit = <<>>

Wit_C6_Construction ==
    /\ ctor.called
    /\ ctor.code_distance = 5
    /\ ctor.basis = "y"
    /\ ctor.raised = "ValueError"
    /\ code = NoCode

Zeros(n) == [i \in 1..n |-> 0]

\* C4: without noise (noise_prob = 0 and measurement_noise = 0) every outcome row
\* of every simulation is all zeros, every shot decodes to 0, and the logical
\* error rate against expected value 0 is exactly 0.
Thm_C4_NoNoiseNoError ==
    (samples # <<>> /\ params.noise_prob = 0 /\ params.measurement_noise = 0) =>
        LET d == code.code_distance
        IN  /\ Len(samples) = params.num_shots
            /\ \A k \in 1..Len(samples) : samples[k] = Zeros(2 * d - 1)
            /\ result.op = "decode" => result.val = 0
            /\ result.op = "decode_samples" => result.val = Zeros(params.num_shots)
            /\ (result.op = "calculate_logical_error_rate"
                /\ result.expected_value \in {<<>>, <<0>>}) =>
                    /\ result.val.kind = "float"
                    /\ result.val.num = 0
                    /\ result.val.den = params.num_shots

Wit_C4_NoNoiseNoError ==
    /\ params.noise_prob = 0
    /\ params.measurement_noise = 0
    /\ params.num_shots = MaxShots
    /\ code.code_distance = 5
    /\ code.basis = "x"
    /\ result.op = "calculate_logical_error_rate"
    /\ result.expected_value = <<>>
    /\ result.val.num = 0

\* The data-noise instructions of the protected basis that fired in shot k.
DataErrors(k) ==
    {i \in fired[k] :
        /\ circuit[i].name = (IF code.basis = "z" THEN "X_ERROR" ELSE "Z_ERROR")
        /\ circuit[i].targets[1] < code.code_distance}

\* The readout-error instructions (on ancillas) that fired in shot k.
ReadoutErrors(k) ==
    {i \in fired[k] : circuit[i].targets[1] >= code.code_distance}

\* C5: a shot in which the data noise fired on at most (d-1)/2 physical qubits
\* decodes to the encoded value 0, whatever readout errors fired, and a shot in
\* which it fired on more than (d-1)/2 decodes to 1.
Thm_C5_CorrectsHalfDistance ==
    samples # <<>> =>
        LET d == code.code_distance
            expected(k) == IF Cardinality(DataErrors(k)) <= (d - 1) \div 2 THEN 0 ELSE 1
        IN  /\ result.op = "decode" => result.val = expected(result.row)
            /\ result.op = "decode_samples" =>
                  /\ Len(result.val) = Len(samples)
                  /\ \A k \in 1..Len(samples) : result.val[k] = expected(k)

Wit_C5_CorrectsHalfDistance ==
    /\ result.op = "decode"
    /\ code.code_distance = 5
    /\ code.basis = "x"
    /\ Cardinality(DataErrors(result.row)) = 2
    /\ ReadoutErrors(result.row) # {}
    /\ result.val = 0

\* ---- the decoder module's functions (SpecFn)
Min(a, b) == IF a <= b THEN a ELSE b
Ones(v) == Cardinality({i \in 1..Len(v) : v[i] = 1})
\* The value held by more than half of the bits of v, 0 when there is none.
Majority(v) == IF Ones(v) > Len(v) - Ones(v) THEN 1 ELSE 0
\* A row split at index code_distance - 1.
SyndromeOf(row, code_distance) == SubSeq(row, 1, Min(code_distance - 1, Len(row)))
DataOf(row, code_distance) == SubSeq(row, Min(code_distance - 1, Len(row)) + 1, Len(row))
\* The row with its syndrome prefix zeroed.
ZeroSyndrome(row, code_distance) ==
    [i \in 1..Len(row) |-> IF i <= code_distance - 1 THEN 0 ELSE row[i]]
ZeroSyndromes(m, code_distance) ==
    [k \in 1..Len(m) |-> ZeroSyndrome(m[k], code_distance)]
\* expected_value as the function sees it.
Expected(given) == IF given = <<>> THEN 0 ELSE given[1]

\* C2: on every non-empty data vector decode returns 1 exactly when the ones
\* strictly outnumber the zeros and 0 otherwise (a tie gives 0); it returns
\* nothing but 0 or 1; [1,1,0,0,0] gives 0 and [1,1,1,0,0] gives 1.
Thm_C2_MajorityVote ==
    result.op = "decode" =>
        LET data == DataOf(samples[result.row], result.code_distance)
        IN  data # <<>> =>
              /\ result.raised = "none"
              /\ result.val \in {0, 1}
              /\ result.val = 1 <=> Ones(data) > Len(data) - Ones(data)
              /\ 2 * Ones(data) = Len(data) => result.val = 0
              /\ data = <<1, 1, 0, 0, 0>> => result.val = 0
              /\ data = <<1, 1, 1, 0, 0>> => result.val = 1

Wit_C2_MajorityVote ==
    /\ result.op = "decode"
    /\ result.code_distance = 5
    /\ DataOf(samples[result.row], result.code_distance) = <<1, 1, 1, 0, 0>>
    /\ Ones(SyndromeOf(samples[result.row], result.code_distance)) = 0
    /\ result.val = 1

\* C3: the syndrome does not influence decoding.  Two inputs that agree on the
\* data and differ in the syndromes have the same syndrome-free form (the
\* syndrome dropped, or every syndrome prefix zeroed), so the claim is that each
\* function returns on every input what it returns on that input's
\* syndrome-free form.
Thm_C3_SyndromeIgnored ==
    LET d == result.code_distance
    IN  /\ result.op = "decode" =>
              result.val = decode(<<>>, DataOf(samples[result.row], d))
        /\ result.op = "decode_samples" =>
              result.val = decode_samples(ZeroSyndromes(samples, d), d)
        /\ result.op = "calculate_logical_error_rate" =>
              result.val = calculate_logical_error_rate(ZeroSyndromes(samples, d), d,
                                                        Expected(result.expected_value))

Wit_C3_SyndromeIgnored ==
    /\ result.op = "decode_samples"
    /\ result.code_distance = 3
    /\ Len(samples) = 2
    /\ SyndromeOf(samples[1], 3) = <<1, 1>>
    /\ SyndromeOf(samples[2], 3) = <<0, 1>>
    /\ result.val = <<0, 1>>

\* C7: on a non-empty outcome matrix calculate_logical_error_rate returns the
\* number of rows whose decoded value differs from expected_value (0 when left
\* out) divided by the number of rows: a value in [0, 1].
Thm_C7_RateIsFraction ==
    (result.op = "calculate_logical_error_rate" /\ samples # <<>>) =>
        LET d == result.code_distance
            e == Expected(result.expected_value)
            wrong == {k \in 1..Len(samples) : Majority(DataOf(samples[k], d)) # e}
        IN  /\ result.raised = "none"
            /\ result.val.kind = "float"
            /\ result.val.num = Cardinality(wrong)
            /\ result.val.den = Len(samples)
            /\ 0 <= result.val.num /\ result.val.num <= result.val.den

Wit_C7_RateIsFraction ==
    /\ result.op = "calculate_logical_error_rate"
    /\ result.expected_value = <<>>
    /\ Len(samples) = 3
    /\ result.val.num = 1
    /\ result.val.den = 3

\* C8 (as claimed): on an empty outcome matrix calculate_logical_error_rate
\* raises, and returns no value.
CE_C8_ZeroShotsRaise ==
    (result.op = "calculate_logical_error_rate" /\ samples = <<>>) =>
        /\ result.raised # "none"
        /\ result.val.kind \notin {"float", "nan", "inf"}

\* C9: on a non-empty matrix analyze_syndrome_patterns maps each distinct
\* syndrome prefix to the number of rows with that prefix, counts the distinct
\* prefixes, and reports as most common a pattern of maximal count, the one
\* first seen in row order among those of maximal count.
Thm_C9_SyndromePatterns ==
    (result.op = "analyze_syndrome_patterns" /\ samples # <<>>) =>
        LET d == result.code_distance
            prefix(k) == SyndromeOf(samples[k], d)
            seen == {prefix(k) : k \in 1..Len(samples)}
            count(p) == Cardinality({k \in 1..Len(samples) : prefix(k) = p})
            first(p) == CHOOSE k \in 1..Len(samples) :
                            /\ prefix(k) = p
                            /\ \A j \in 1..(k - 1) : prefix(j) # p
            pats == result.val.patterns
            best == result.val.most_common
        IN  /\ result.raised = "none"
            /\ {pats[j][1] : j \in 1..Len(pats)} = seen
            /\ Len(pats) = Cardinality(seen)
            /\ \A j \in 1..Len(pats) : pats[j][2] = count(pats[j][1])
            /\ result.val.num_unique_patterns = Cardinality(seen)
            /\ best[1] \in seen
            /\ best[2] = count(best[1])
            /\ \A p \in seen : count(p) <= best[2]
            /\ \A p \in seen : count(p) = best[2] => first(best[1]) <= first(p)

Wit_C9_SyndromePatterns ==
    /\ result.op = "analyze_syndrome_patterns"
    /\ result.code_distance = 3
    /\ Len(samples) = 4
    /\ result.val.num_unique_patterns = 2
    /\ result.val.patterns[1][2] = 2
    /\ result.val.patterns[2][2] = 2
    /\ result.val.most_common = <<SyndromeOf(samples[1], 3), 2>>

\* C10: decode_samples returns one decoded bit per row, in row order: entry k is
\* decode of row k split at index code_distance - 1.
Thm_C10_DecodeSamplesOrder ==
    result.op = "decode_samples" =>
        LET d == result.code_distance
        IN  /\ result.raised = "none"
            /\ Len(result.val) = Len(samples)
            /\ \A k \in 1..Len(samples) :
                  result.val[k] = decode(SyndromeOf(samples[k], d), DataOf(samples[k], d))

Wit_C10_DecodeSamplesOrder ==
    /\ result.op = "decode_samples"
    /\ result.code_distance = 2
    /\ Len(samples) = 3
    /\ result.val = <<1, 0, 0>>

\* C11 (as claimed): decode on an empty data vector raises, and returns no bit.
CE_C11_EmptyDataRaises ==
    (result.op = "decode"
     /\ DataOf(samples[result.row], result.code_distance) = <<>>) =>
        /\ result.raised # "none"
        /\ result.val \notin {0, 1}

\* ---- the pipeline on arguments out of range (Spec)
OutOfRange(p) == p < 0 \/ p > ProbDen

\* C12 (as claimed): create_full_circuit called with a noise probability or a
\* measurement-noise probability outside [0, 1] raises and returns no circuit.
CE_C12_ProbabilityRange ==
    (params.op = "create_full_circuit"
     /\ (OutOfRange(params.noise_prob) \/ OutOfRange(params.measurement_noise))) =>
        /\ params.raised # "none"
        /\ ~params.circuit_built
        /\ circuit = <<>>

\* C13 (as claimed): run_error_correction_simulation called with num_shots <= 0
\* raises before any circuit is built, and returns no circuit and no matrix.
CE_C13_ShotCount ==
    (params.op = "run_error_correction_simulation"
     /\ params.noise_prob \in 0..ProbDen
     /\ params.measurement_noise \in 0..ProbDen
     /\ params.num_shots <= 0) =>
        /\ params.raised # "none"
        /\ ~params.circuit_built
        /\ circuit = <<>>
        /\ samples = <<>>

\* ---- the unprotected qubit (SpecUnprotected)
\* The circuit the claim describes for a basis and a probability.
SingleQubitCircuit(basis, noise_prob) ==
    LET h   == IF basis = "x" THEN <<Instr("H", <<0>>, <<>>)>> ELSE <<>>
        err == Instr(IF basis = "z" THEN "X_ERROR" ELSE "Z_ERROR", <<0>>, <<noise_prob>>)
    IN  h \o <<err>> \o h \o <<Instr("M", <<0>>, <<>>)>>

\* The same without the probabilistic-error instruction.
SingleQubitCircuitNoError(basis) ==
    LET h == IF basis = "x" THEN <<Instr("H", <<0>>, <<>>)>> ELSE <<>>
    IN  h \o h \o <<Instr("M", <<0>>, <<>>)>>

UnprotectedBuilt ==
    /\ params.op \in {"create_circuit", "run_unprotected_simulation"}
    /\ params.basis \in {"z", "x"}
    /\ params.noise_prob \in 0..ProbDen

\* C14 (as claimed): for basis 'z' or 'x' and every noise_prob in [0, 1] the
\* circuit is: H iff 'x', exactly one error instruction of the matched channel
\* with probability noise_prob, H iff 'x', one measurement; all on qubit 0.
CE_C14_SingleQubitCircuit ==
    (UnprotectedBuilt /\ params.op = "create_circuit") =>
        /\ params.raised = "none"
        /\ circuit = SingleQubitCircuit(params.basis, params.noise_prob)

\* C14 (amended): for basis 'z' or 'x' and every noise_prob in (0, 1] the
\* circuit is as claimed; for noise_prob = 0 it holds no error instruction at
\* all: the rotations (iff 'x') and the one measurement only.  Either way every
\* instruction is on qubit 0 and the measurement is the last one.
Thm_C14_SingleQubitCircuit ==
    UnprotectedBuilt =>
        /\ params.op = "create_circuit" => params.raised = "none"
        /\ params.raised = "none" =>
             /\ circuit = IF params.noise_prob > 0
                          THEN SingleQubitCircuit(params.basis, params.noise_prob)
                          ELSE SingleQubitCircuitNoError(params.basis)
             /\ \A i \in 1..Len(circuit) : circuit[i].targets = <<0>>
             /\ circuit[Len(circuit)].name = "M"
             /\ Cardinality({i \in 1..Len(circuit) : circuit[i].name = "M"}) = 1

Wit_C14_SingleQubitCircuit ==
    /\ params.op = "create_circuit"
    /\ params.basis = "x"
    /\ params.noise_prob = 1
    /\ circuit = <<Instr("H", <<0>>, <<>>), Instr("Z_ERROR", <<0>>, <<1>>),
                   Instr("H", <<0>>, <<>>), Instr("M", <<0>>, <<>>)>>

\* ---- the comparison of code sizes (SpecCompare)
\* n choose k.
RECURSIVE Binomial(_, _)
Binomial(n, k) ==
    IF k = 0 \/ k = n THEN 1 ELSE Binomial(n - 1, k - 1) + Binomial(n - 1, k)

\* The probability, in units of 1/ProbDen^d, that at least `from` of d
\* independent flips of probability a/ProbDen occur.
RECURSIVE TailNum(_, _, _)
TailNum(d, a, from) ==
    IF from > d THEN 0
    ELSE Binomial(d, from) * Pow(a, from) * Pow(ProbDen - a, d - from)
         + TailNum(d, a, from + 1)

\* C15: for every noise_prob strictly between 0 and 1 and measurement_noise 0
\* the expected logical error rate of the distance-d code is the probability
\* that more than (d-1)/2 of d independent flips of probability noise_prob
\* occur; and for noise_prob < 1/2 it is strictly smaller for the larger of any
\* two of the distances 3, 5, 7.
Thm_C15_RateDecreasesWithDistance ==
    result.op = "compare_code_sizes" =>
        LET a == params.noise_prob
            r == result.val
        IN  /\ \A i \in 1..Len(r) :
                  /\ r[i][2].kind = "float"
                  /\ r[i][2].den = Pow(ProbDen, r[i][1])
                  /\ r[i][2].num = TailNum(r[i][1], a, (r[i][1] + 1) \div 2)
            /\ (0 < a /\ 2 * a < ProbDen) =>
                  \A i, j \in 1..Len(r) :
                      r[i][1] < r[j][1] =>
                          r[i][2].num * Pow(ProbDen, r[j][1] - r[i][1]) > r[j][2].num

Wit_C15_RateDecreasesWithDistance ==
    /\ result.op = "compare_code_sizes"
    /\ 2 * params.noise_prob < ProbDen
    /\ params.noise_prob > 1
    /\ Len(result.val) = 3
    /\ result.val[1][1] = 3 /\ result.val[2][1] = 5 /\ result.val[3][1] = 7
    /\ result.val[3][2].num > 0
    /\ result.val[1][2].num * Pow(ProbDen, 4) > result.val[3][2].num

\* ---- the layout of the built circuit (Spec)
\* A circuit was built for the code: by create_full_circuit or by a simulation.
CodeCircuitBuilt ==
    /\ params.op \in {"create_full_circuit", "run_error_correction_simulation"}
    /\ circuit # <<>>

\* The indices of the instructions of the circuit named in `names`.
Named(names) == {i \in 1..Len(circuit) : circuit[i].name \in names}

\* The indices of the error instructions on physical (data) qubits.
DataNoise ==
    {i \in Named({"X_ERROR", "Z_ERROR"}) : circuit[i].targets[1] < code.code_distance}

\* The indices of the error instructions on ancillas.
AncillaNoise ==
    {i \in Named({"X_ERROR", "Z_ERROR"}) : circuit[i].targets[1] >= code.code_distance}

\* The indices of the instructions that touch qubit q.
Touching(q) ==
    {i \in 1..Len(circuit) : \E j \in 1..Len(circuit[i].targets) : circuit[i].targets[j] = q}

\* C16: every built circuit is, in this order: d-1 encoding CNOT(0, i) for
\* i = 1..d-1; for 'x' H on qubits 0..d-1; the data-noise instructions; for 'x' H
\* on qubits 0..d-1 again; d-1 syndrome blocks, block i on ancilla d+i, for
\* i = 0..d-2; d final measurements of qubits 0..d-1.  No X gate is emitted.
Thm_C16_PhaseOrder ==
    CodeCircuitBuilt =>
        LET d  == code.code_distance
            e  == d - 1
            h  == IF code.basis = "x" THEN d ELSE 0
            n  == Cardinality(DataNoise)
            s  == e + 2 * h + n
            b  == (Len(circuit) - s - d) \div (d - 1)
        IN  /\ b \in {4, 5}
            /\ Len(circuit) = s + (d - 1) * b + d
            /\ \A i \in 1..e : circuit[i] = Instr("CNOT", <<0, i>>, <<>>)
            /\ \A i \in 1..h : circuit[e + i] = Instr("H", <<i - 1>>, <<>>)
            /\ \A i \in 1..n : /\ e + h + i \in DataNoise
                               /\ circuit[e + h + i].targets = <<i - 1>>
            /\ \A i \in 1..h : circuit[e + h + n + i] = Instr("H", <<i - 1>>, <<>>)
            /\ \A k \in 0..(d - 2) : \A i \in 1..b :
                  LET ins == circuit[s + k * b + i]
                  IN  /\ ins.name \in {"R", "CNOT", "X_ERROR", "M"}
                      /\ ins.targets[Len(ins.targets)] = d + k
            /\ \A i \in 1..d : circuit[s + (d - 1) * b + i] = Instr("M", <<i - 1>>, <<>>)
            /\ Named({"X"}) = {}

Wit_C16_PhaseOrder ==
    /\ CodeCircuitBuilt
    /\ code.code_distance = 5
    /\ code.basis = "x"
    /\ params.noise_prob = 1
    /\ params.measurement_noise = 1
    /\ Len(circuit) = 44
    /\ circuit[10].name = "Z_ERROR"
    /\ circuit[20] = Instr("R", <<5>>, <<>>)

\* C17: if noise_prob > 0 the circuit holds exactly d data-noise instructions,
\* next to each other, the k-th on qubit k-1, each with probability noise_prob
\* and of channel X_ERROR for 'z' and Z_ERROR for 'x'; if noise_prob = 0 it
\* holds none.  An error instruction on an ancilla is a readout error: X_ERROR
\* with probability measurement_noise, one per ancilla when measurement_noise > 0
\* and none when measurement_noise = 0.
Thm_C17_NoiseOnlyWhenPositive ==
    CodeCircuitBuilt =>
        LET d  == code.code_distance
            op == IF code.basis = "z" THEN "X_ERROR" ELSE "Z_ERROR"
        IN  /\ params.noise_prob > 0 =>
                  /\ Cardinality(DataNoise) = d
                  /\ \E first \in 1..Len(circuit) :
                        /\ DataNoise = first..(first + d - 1)
                        /\ \A k \in 1..d :
                              circuit[first + k - 1] = Instr(op, <<k - 1>>,
                                                             <<params.noise_prob>>)
            /\ params.noise_prob = 0 => DataNoise = {}
            /\ \A i \in AncillaNoise :
                  /\ circuit[i].name = "X_ERROR"
                  /\ circuit[i].args = <<params.measurement_noise>>
            /\ params.measurement_noise > 0 =>
                  /\ Cardinality(AncillaNoise) = d - 1
                  /\ {circuit[i].targets[1] : i \in AncillaNoise} = d..(2 * d - 2)
            /\ params.measurement_noise = 0 => AncillaNoise = {}
            /\ \A i \in 1..Len(circuit) :
                  circuit[i].args # <<>> => circuit[i].args[1] > 0

Wit_C17_NoiseOnlyWhenPositive ==
    /\ CodeCircuitBuilt
    /\ code.code_distance = 5
    /\ code.basis = "x"
    /\ params.noise_prob = 0
    /\ params.measurement_noise = ProbDen
    /\ DataNoise = {}
    /\ Cardinality(AncillaNoise) = 4

\* C18: for each pair index i in 0..d-2 the circuit holds, next to each other and
\* in this order, R(d+i), CNOT(i, d+i), CNOT(i+1, d+i), X_ERROR(d+i) with
\* probability measurement_noise iff measurement_noise > 0, and M(d+i); and these
\* are all the instructions that touch ancilla d+i.
Thm_C18_SyndromeBlock ==
    CodeCircuitBuilt =>
        LET d     == code.code_distance
            m     == params.measurement_noise
            block(i) ==
                <<Instr("R", <<d + i>>, <<>>),
                  Instr("CNOT", <<i, d + i>>, <<>>),
                  Instr("CNOT", <<i + 1, d + i>>, <<>>)>>
                \o (IF m > 0 THEN <<Instr("X_ERROR", <<d + i>>, <<m>>)>> ELSE <<>>)
                \o <<Instr("M", <<d + i>>, <<>>)>>
        IN  \A i \in 0..(d - 2) :
                LET touching == Touching(d + i)
                    first    == CHOOSE x \in touching : \A y \in touching : x <= y
                    last     == first + Len(block(i)) - 1
                IN  /\ touching # {}
                    /\ last <= Len(circuit)
                    /\ SubSeq(circuit, first, last) = block(i)
                    /\ touching = first..last

Wit_C18_SyndromeBlock ==
    /\ CodeCircuitBuilt
    /\ code.code_distance = 5
    /\ code.basis = "z"
    /\ params.noise_prob = 1
    /\ params.measurement_noise = 1
    /\ SubSeq(circuit, 25, 29) = <<Instr("R", <<8>>, <<>>),
                                   Instr("CNOT", <<3, 8>>, <<>>),
                                   Instr("CNOT", <<4, 8>>, <<>>),
                                   Instr("X_ERROR", <<8>>, <<1>>),
                                   Instr("M", <<8>>, <<>>)>>

\* The physical qubits on which the data noise fired in shot k.
Flipped(k) == {circuit[i].targets[1] : i \in DataErrors(k)}

\* C19: with measurement_noise = 0, in every outcome row syndrome bit i is the
\* XOR of the final data bits i and i+1, and the final data bit of qubit q is 1
\* exactly when the data noise fired on q: the syndrome is 1 exactly when one
\* of the two qubits was flipped, and extracting it changes no data value.
Thm_C19_SyndromeIsParity ==
    (samples # <<>> /\ params.measurement_noise = 0) =>
        LET d == code.code_distance
        IN  \A k \in 1..Len(samples) :
              /\ Len(samples[k]) = 2 * d - 1
              /\ \A q \in 0..(d - 1) :
                    samples[k][d + q] = IF q \in Flipped(k) THEN 1 ELSE 0
              /\ \A i \in 0..(d - 2) :
                    /\ samples[k][i + 1] = (samples[k][d + i] + samples[k][d + i + 1]) % 2
                    /\ samples[k][i + 1] = 1 <=> (i \in Flipped(k)) # (i + 1 \in Flipped(k))

Wit_C19_SyndromeIsParity ==
    /\ params.measurement_noise = 0
    /\ code.code_distance = 5
    /\ code.basis = "x"
    /\ Len(samples) = 1
    /\ Flipped(1) = {0, 3, 4}
    /\ samples[1] = <<1, 0, 1, 0, 1, 0, 0, 1, 1>>

\* C20: the 'x' code's circuit holds exactly 2d H instructions: one on each of
\* the qubits 0..d-1 right after the d-1 encoding CNOTs, and one on each of them
\* right before the first syndrome block (the reset of ancilla d), with every
\* Z_ERROR on a physical qubit between the two rounds and no H after them; the
\* 'z' code's circuit holds no H.  In the 'x' code the final measurement of
\* qubit q reads 1 exactly when a Z error fired on q.
Thm_C20_BasisRotation ==
    CodeCircuitBuilt =>
        LET d  == code.code_distance
            hs == Named({"H"})
            r  == CHOOSE i \in 1..Len(circuit) : circuit[i] = Instr("R", <<d>>, <<>>)
        IN  /\ code.basis = "z" => hs = {}
            /\ code.basis = "x" =>
                  /\ Cardinality(hs) = 2 * d
                  /\ hs = (d..(2 * d - 1)) \cup ((r - d)..(r - 1))
                  /\ \A q \in 0..(d - 1) :
                        /\ circuit[d + q].targets = <<q>>
                        /\ circuit[r - d + q].targets = <<q>>
                  /\ \A i \in Named({"Z_ERROR"}) :
                        /\ 2 * d - 1 < i /\ i < r - d
                        /\ circuit[i].targets[1] < d
                  /\ \A k \in 1..Len(samples) : \A q \in 0..(d - 1) :
                        samples[k][d + q] = 1 <=>
                            \E i \in fired[k] : circuit[i] = Instr("Z_ERROR", <<q>>,
                                                                   <<params.noise_prob>>)

Wit_C20_BasisRotation ==
    /\ CodeCircuitBuilt
    /\ code.code_distance = 3
    /\ code.basis = "x"
    /\ Named({"H"}) = {3, 4, 5, 9, 10, 11}
    /\ Len(samples) = 2
    /\ samples[1] = <<1, 1, 0, 1, 0>>
    /\ samples[2] = <<0, 0, 0, 0, 0>>
    /\ fired[1] = {7}

\* ---- readout errors (Spec)
\* The ancillas whose readout error fired in shot k.
ReadoutFlipped(k) == {circuit[i].targets[1] : i \in ReadoutErrors(k)}

\* The value a majority vote gives when the data noise fired on Flipped(k).
Vote(k) == IF 2 * Cardinality(Flipped(k)) > code.code_distance THEN 1 ELSE 0

InSet(x, S) == IF x \in S THEN 1 ELSE 0

\* C21: the data suffix of an outcome row depends on the fired data errors
\* alone: two shots with the same data errors have the same data suffix
\* whatever readout errors fired in each, data bit q being 1 exactly when the
\* data noise fired on q; a fired readout error flips its own syndrome bit and
\* nothing else; so decode, decode_samples and the logical error rate are those
\* of the data errors alone.
Thm_C21_ReadoutErrorsHarmless ==
    samples # <<>> =>
        LET d == code.code_distance
            n == Len(samples)
        IN  /\ \A k1, k2 \in 1..n :
                  Flipped(k1) = Flipped(k2) =>
                      SubSeq(samples[k1], d, 2 * d - 1) = SubSeq(samples[k2], d, 2 * d - 1)
            /\ \A k \in 1..n :
                  /\ \A q \in 0..(d - 1) : samples[k][d + q] = InSet(q, Flipped(k))
                  /\ \A i \in 0..(d - 2) :
                        samples[k][i + 1] = (InSet(i, Flipped(k)) + InSet(i + 1, Flipped(k))
                                             + InSet(d + i, ReadoutFlipped(k))) % 2
            /\ result.op = "decode" => result.val = Vote(result.row)
            /\ result.op = "decode_samples" => result.val = [k \in 1..n |-> Vote(k)]
            /\ result.op = "calculate_logical_error_rate" =>
                  /\ result.val.kind = "float"
                  /\ result.val.den = n
                  /\ result.val.num =
                        Cardinality({k \in 1..n : Vote(k) # Expected(result.expected_value)})

Wit_C21_ReadoutErrorsHarmless ==
    /\ result.op = "calculate_logical_error_rate"
    /\ code.code_distance = 3
    /\ Len(samples) = 2
    /\ Flipped(1) = {1}
    /\ Flipped(2) = {1}
    /\ ReadoutFlipped(1) = {}
    /\ ReadoutFlipped(2) = {3, 4}
    /\ samples[1] = <<1, 1, 0, 1, 0>>
    /\ samples[2] = <<0, 0, 0, 1, 0>>
    /\ result.val.num = 0

\* ---- the two implementations of the rate and of the decoder (SpecFn)
\* C22: on every non-empty outcome matrix and for every distance d,
\* ErrorSimulator.calculate_logical_error_rate(samples, d-1, decode) raises
\* nothing and returns what decoder.calculate_logical_error_rate(samples, d, 0)
\* returns: the number of rows whose data majority is not 0 over the number of
\* rows.  decode_with_syndrome returns what decode returns on the same
\* arguments, the majority bit of the data, and leaves data_measurements as it
\* was.
Thm_C22_ImplementationsAgree ==
    LET d == result.code_distance
    IN  /\ (result.op = "ErrorSimulator.calculate_logical_error_rate"
            /\ samples # <<>>) =>
                /\ result.raised = "none"
                /\ result.val = calculate_logical_error_rate(samples, d, 0)
                /\ result.val.num =
                      Cardinality({k \in 1..Len(samples) :
                                      Majority(DataOf(samples[k], d)) # 0})
                /\ result.val.den = Len(samples)
        /\ result.op = "decode_with_syndrome" =>
                LET syndrome == SyndromeOf(samples[result.row], d)
                    data     == DataOf(samples[result.row], d)
                IN  /\ result.val.val = decode(syndrome, data)
                    /\ result.val.val = Majority(data)
                    /\ result.val.data_measurements = data

Wit_C22_ImplementationsAgree ==
    /\ result.op = "ErrorSimulator.calculate_logical_error_rate"
    /\ result.code_distance = 3
    /\ samples = <<<<1, 1, 0, 1, 1>>, <<0, 1, 1, 0, 0>>>>
    /\ result.val = Float(1, 2)

\* ---- qubit indices (Spec)
\* The qubits named by the instructions at the indices idx, at target position j.
TargetsAt(idx, j) == {circuit[i].targets[j] : i \in idx}

\* C23: in every built circuit each qubit index lies in 0..2d-2; the qubits
\* used as data (CNOT controls, encoding targets, rotated, hit by data noise,
\* measured last) are 0..d-1 and those used as ancillas (reset) are d..2d-2, so
\* no qubit is both; the d-1 resets are of d-1 different ancillas, each measured
\* once; no data qubit is reset, and a CNOT targets a data qubit only in the
\* encoding phase (the first d-1 instructions, controlled by qubit 0).  The code
\* keeps the fields its constructor set, and a second call with the same
\* arguments returns the same instruction sequence.
Thm_C23_WellFormedIndices ==
    CodeCircuitBuilt =>
        LET d      == code.code_distance
            all    == 1..Len(circuit)
            cnots  == Named({"CNOT"})
            resets == Named({"R"})
            data   == TargetsAt(cnots, 1)
                      \cup TargetsAt({i \in cnots : i <= d - 1}, 2)
                      \cup TargetsAt(Named({"H"}), 1)
                      \cup TargetsAt(DataNoise, 1)
                      \cup TargetsAt({i \in Named({"M"}) : i > Len(circuit) - d}, 1)
            anc    == TargetsAt(resets, 1)
        IN  /\ \A i \in all : \A j \in 1..Len(circuit[i].targets) :
                  circuit[i].targets[j] \in 0..(2 * d - 2)
            /\ data = 0..(d - 1)
            /\ anc = d..(2 * d - 2)
            /\ data \cap anc = {}
            /\ Cardinality(resets) = d - 1
            /\ \A i, j \in resets : circuit[i].targets = circuit[j].targets => i = j
            /\ \A q \in anc :
                  Cardinality({i \in Named({"M"}) : circuit[i].targets = <<q>>}) = 1
            /\ \A i \in cnots :
                  circuit[i].targets[2] < d => i <= d - 1 /\ circuit[i].targets[1] = 0
            /\ code = RepetitionCode(ctor.code_distance, ctor.basis)
            /\ result.op = "create_full_circuit" =>
                  /\ result.raised = "none"
                  /\ result.val = circuit

Wit_C23_WellFormedIndices ==
    /\ CodeCircuitBuilt
    /\ result.op = "create_full_circuit"
    /\ code.code_distance = 5
    /\ code.basis = "x"
    /\ params.noise_prob = 1
    /\ params.measurement_noise = 1
    /\ Len(result.val) = 44
    /\ result.val = circuit
    /\ TargetsAt(Named({"R"}), 1) = {5, 6, 7, 8}

====
